---- MODULE Spec2Model ----
(***************************************************************************)
(* Library management system (src/main.py): the query / ordering engine.   *)
(*                                                                         *)
(* Strings are sequences of character codes so that str.lower() and the    *)
(* lexicographic comparison of Python strings are computed, not assumed.   *)
(* Ratings are floats with one decimal digit in the program; they are kept *)
(* here in tenths (4.5 is 45), on which ==, < and >= are exact.            *)
(* A Book is a Python object: two books with the same field values are     *)
(* still two objects.  The field id stands for the object's identity; it   *)
(* is the rank of the book's creation.  The author is never read by the    *)
(* engine and is left out.                                                 *)
(***************************************************************************)
EXTENDS Integers, Sequences, FiniteSets, TLC

(***************************************************************************)
(* Bounds of the model.                                                    *)
(***************************************************************************)
MaxBooks == 3            \* longest collection handed to the sorts
MaxSearchBooks == 5      \* longest collection handed to the binary search
MaxLookupBooks == 4      \* longest collection handed to the title lookup
MaxFilterBooks == 2      \* longest collection handed to the truth table search
MaxTerminationBooks == 4  \* longest collection in the check that a search returns
MaxEngineBooks == 2       \* longest collection all four engine operations run on
MaxLifeBooks == 2         \* most Book objects created in a life cycle
MaxEvents == 4            \* most history entries written in a life cycle
MaxRemoveBooks == 3       \* most books in an inventory that books are removed from

(***************************************************************************)
(* Program constants.                                                      *)
(***************************************************************************)
MinYear == 1500          \* Book.__init__: year < 1500 is refused
CurrentYear == 2026      \* datetime.now().year
MinRating == 10          \* 1 <= rating, in tenths
MaxRating == 50          \* rating <= 5, in tenths

(***************************************************************************)
(* Python strings.                                                         *)
(***************************************************************************)
\* str.lower() on ASCII text: "A".."Z" (65..90) become "a".."z" (97..122)
Lower(s) == [i \in 1..Len(s) |-> IF s[i] \in 65..90 THEN s[i] + 32 ELSE s[i]]

\* a < b on Python strings: code point by code point, a proper prefix is less
StrLess(a, b) ==
    \E k \in 1..(Len(b)) :
        /\ \A i \in 1..(k - 1) : i <= Len(a) /\ a[i] = b[i]
        /\ Len(a) >= k - 1
        /\ (Len(a) = k - 1 \/ a[k] < b[k])

\* a <= b on Python strings
StrLeq(a, b) == a = b \/ StrLess(a, b)

(***************************************************************************)
(* Book.__init__                                                           *)
(***************************************************************************)
\* the three validations of the constructor; any other input raises ValueError
Book_init_ok(year, rating, quantity) ==
    /\ year >= MinYear /\ year <= CurrentYear
    /\ MinRating <= rating /\ rating <= MaxRating
    /\ quantity >= 0

\* the object the constructor leaves behind
Book(id, title, genre, year, rating, availability, quantity) ==
    [id |-> id, title |-> title, genre |-> genre, year |-> year,
     rating |-> rating, availability |-> availability, quantity |-> quantity,
     history |-> << "created" >>, inventory |-> "None"]

\* BookInventory.add_book, line 335: book.inventory = self
Attach(book) == [book EXCEPT !.inventory = "inventory"]

\* Book._add_to_history; an entry is kept as its action tag, the timestamp
\* and the details text are left out
history_overwritten(book, action) == [book EXCEPT !.history = << action >>]
add_to_history(book, action) == [book EXCEPT !.history = Append(@, action)]

\* BookInventory._save_database, lines 318-330: the rows written to the CSV
\* file, one per book of the inventory
save_database(bs) ==
    [i \in 1..Len(bs) |->
        [title |-> bs[i].title, genre |-> bs[i].genre, year |-> bs[i].year,
         rating |-> bs[i].rating, availability |-> bs[i].availability,
         quantity |-> bs[i].quantity]]

(***************************************************************************)
(* Sample field values.                                                    *)
(***************************************************************************)
\* "a", "A", "B", "ab": case variants, a prefix, and "B" < "a" < "b" in codes
Titles == { <<97>>, <<65>>, <<66>>, <<97, 98>> }
Years == { 1999, 2010 }
Ratings == { 40, 45 }

VARIABLES
    books,            \* BookInventory.books / BookAnalytics.books
    sort_strategy,    \* the strategy of the last sort_books call, or "none"
    sort_out,         \* what that call returned
    resorted,         \* TRUE once the strategy was applied to its own output
    resort_out,       \* what the second application returned
    pc,               \* custom_binary_search: "idle", "searching" or "done"
    target_rating,    \* its arguments
    target_year,
    sorted_books,     \* its local: the books in ascending rating order
    stack,            \* pending calls of binary_search_with_criteria, next first
    results,          \* its local: the matches appended so far
    search_out,       \* what the last custom_binary_search call returned
    lookup_done,      \* TRUE once find_book_by_title was called
    lookup_title,     \* its argument
    lookup_out,       \* what it returned: << >> for None, << book >> for a book
    filter_done,      \* TRUE once practical_truth_table_search was called
    filter_genre,     \* its arguments
    filter_students,
    filter_type,
    filter_out,       \* what it returned: (book, is_borrowable, is_reference)
    loose,            \* the Book objects that were never added to the inventory
    database,         \* the rows of library_database.csv
    last_op,          \* the last operation on a book, or "none"
    last_target,      \* the id of the book it was called on, 0 if there is none
    last_ret          \* its outcome: "True", "False", "None" or the exception

sortVars == << sort_strategy, sort_out, resorted, resort_out >>
searchVars == << pc, target_rating, target_year, sorted_books, stack, results,
                search_out >>
lookupVars == << lookup_done, lookup_title, lookup_out >>
filterVars == << filter_done, filter_genre, filter_students, filter_type, filter_out >>
lifeVars == << loose, database, last_op, last_target, last_ret >>
vars == << books, sortVars, searchVars, lookupVars, filterVars, lifeVars >>

\* no sort was asked for yet
SortIdle ==
    /\ sort_strategy = "none"
    /\ sort_out = << >>
    /\ resorted = FALSE
    /\ resort_out = << >>

\* no search was asked for yet
SearchIdle ==
    /\ pc = "idle"
    /\ target_rating = 0
    /\ target_year = 0
    /\ sorted_books = << >>
    /\ stack = << >>
    /\ results = << >>
    /\ search_out = << >>

\* no title was looked up yet
LookupIdle ==
    /\ lookup_done = FALSE
    /\ lookup_title = << >>
    /\ lookup_out = << >>

\* no truth table search was asked for yet
FilterIdle ==
    /\ filter_done = FALSE
    /\ filter_genre = << >>
    /\ filter_students = FALSE
    /\ filter_type = "any"
    /\ filter_out = << >>

\* the inventory was loaded from its file and no book was operated on yet
LifeIdle ==
    /\ loose = << >>
    /\ database = save_database(books)
    /\ last_op = "none"
    /\ last_target = 0
    /\ last_ret = "none"

(***************************************************************************)
(* BubbleRatingSort                                                        *)
(***************************************************************************)
\* line 214: the condition of the adjacent swap
BubbleNeedsSwapLax(a, b) == a.rating <= b.rating
BubbleNeedsSwapAscending(a, b) == a.rating > b.rating
BubbleNeedsSwap(a, b) == a.rating < b.rating

\* line 215: the tuple assignment swaps positions j and j+1 (1-based here)
BubbleSwapLossy(s, j) == [s EXCEPT ![j] = s[j + 1]]
BubbleSwap(s, j) == [s EXCEPT ![j] = s[j + 1], ![j + 1] = s[j]]

\* line 213-215: for j in range(0, n - i - 1); j is 1-based here, so it runs
\* over 1..last with last = n - i - 1
RECURSIVE BubbleInner(_, _, _)
BubbleInner(s, j, last) ==
    IF j > last THEN s
    ELSE BubbleInner(IF BubbleNeedsSwap(s[j], s[j + 1]) THEN BubbleSwap(s, j) ELSE s,
                     j + 1, last)

\* line 212: for i in range(n)
RECURSIVE BubbleOuter(_, _)
BubbleOuter(s, i) ==
    IF i >= Len(s) THEN s
    ELSE BubbleOuter(BubbleInner(s, 1, Len(s) - i - 1), i + 1)

\* BubbleRatingSort.sort: works on books.copy()
BubbleRatingSort_sort(bs) == BubbleOuter(bs, 0)

\* line 209: the swaps are made in books.copy(), so the list the caller
\* passed holds the same books at the same positions after the call
BubbleRatingSort_in_place(bs) == BubbleOuter(bs, 0)
BubbleRatingSort_caller_list(bs) == bs

(***************************************************************************)
(* MergeTitleSort                                                          *)
(***************************************************************************)
\* line 237: the left head is taken when its folded title is <= the right's
TitleTakesLeftRaw(l, r) == StrLeq(l.title, r.title)
TitleTakesLeftStrict(l, r) == StrLess(Lower(l.title), Lower(r.title))
TitleTakesLeft(l, r) == StrLeq(Lower(l.title), Lower(r.title))

\* lines 236-246: the merge loop, then the two extend calls
RECURSIVE MergeTitleSort_merge_loop(_, _, _, _, _)
MergeTitleSort_merge_loop(left, right, li, ri, merged) ==
    IF li <= Len(left) /\ ri <= Len(right)
    THEN IF TitleTakesLeft(left[li], right[ri])
         THEN MergeTitleSort_merge_loop(left, right, li + 1, ri, Append(merged, left[li]))
         ELSE MergeTitleSort_merge_loop(left, right, li, ri + 1, Append(merged, right[ri]))
    ELSE merged \o SubSeq(left, li, Len(left)) \o SubSeq(right, ri, Len(right))

MergeTitleSort_merge(left, right) == MergeTitleSort_merge_loop(left, right, 1, 1, << >>)

\* lines 222-230
RECURSIVE MergeTitleSort_sort(_)
MergeTitleSort_sort(bs) ==
    IF Len(bs) <= 1 THEN bs
    ELSE LET mid == Len(bs) \div 2
         IN  MergeTitleSort_merge(MergeTitleSort_sort(SubSeq(bs, 1, mid)),
                                  MergeTitleSort_sort(SubSeq(bs, mid + 1, Len(bs))))

(***************************************************************************)
(* MergeYearSort                                                           *)
(***************************************************************************)
\* line 266: the left head is taken when its year is >= the right's
YearTakesLeftAscending(l, r) == l.year <= r.year
YearTakesLeftStrict(l, r) == l.year > r.year
YearTakesLeft(l, r) == l.year >= r.year

\* lines 265-275
RECURSIVE MergeYearSort_merge_loop(_, _, _, _, _)
MergeYearSort_merge_loop(left, right, li, ri, merged) ==
    IF li <= Len(left) /\ ri <= Len(right)
    THEN IF YearTakesLeft(left[li], right[ri])
         THEN MergeYearSort_merge_loop(left, right, li + 1, ri, Append(merged, left[li]))
         ELSE MergeYearSort_merge_loop(left, right, li, ri + 1, Append(merged, right[ri]))
    ELSE merged \o SubSeq(left, li, Len(left)) \o SubSeq(right, ri, Len(right))

MergeYearSort_merge(left, right) == MergeYearSort_merge_loop(left, right, 1, 1, << >>)

\* lines 251-259
RECURSIVE MergeYearSort_sort(_)
MergeYearSort_sort(bs) ==
    IF Len(bs) <= 1 THEN bs
    ELSE LET mid == Len(bs) \div 2
         IN  MergeYearSort_merge(MergeYearSort_sort(SubSeq(bs, 1, mid)),
                                 MergeYearSort_sort(SubSeq(bs, mid + 1, Len(bs))))

(***************************************************************************)
(* SortStrategy: the polymorphic call strategy.sort(books)                 *)
(***************************************************************************)
Strategies == { "rating", "title", "year" }

SortStrategy_sort(strategy, bs) ==
    CASE strategy = "rating" -> BubbleRatingSort_sort(bs)
      [] strategy = "title"  -> MergeTitleSort_sort(bs)
      [] strategy = "year"   -> MergeYearSort_sort(bs)

\* the list the caller passed, after the call: the bubble sort swaps in a
\* copy, the merge sorts only slice the list and append to new ones
SortStrategy_caller_list(strategy, bs) ==
    CASE strategy = "rating" -> BubbleRatingSort_caller_list(bs)
      [] strategy = "title"  -> bs
      [] strategy = "year"   -> bs

(***************************************************************************)
(* The sorting specification: a collection of up to MaxBooks valid books,  *)
(* in creation order, sorted by any strategy any number of times.          *)
(***************************************************************************)
\* the collections of exactly n books whose fields are drawn from the samples,
\* the i-th created book at position i
SortFields ==
    { f \in [title : Titles, year : Years, rating : Ratings] :
        Book_init_ok(f.year, f.rating, 1) }

SortInputs(n) ==
    { [i \in 1..n |-> Attach(Book(i, f[i].title, <<70>>, f[i].year, f[i].rating, TRUE, 1))] :
        f \in [1..n -> SortFields] }

InitSort ==
    /\ \E n \in 0..MaxBooks : books \in SortInputs(n)
    /\ SortIdle
    /\ SearchIdle
    /\ LookupIdle
    /\ FilterIdle
    /\ LifeIdle

\* BookAnalytics.sort_books(strategy), lines 556-565
sort_books(strategy) ==
    /\ sort_strategy' = strategy
    /\ sort_out' = IF books = << >> THEN << >> ELSE SortStrategy_sort(strategy, books)
    /\ resorted' = FALSE
    /\ resort_out' = << >>
    /\ books' = IF books = << >> THEN books ELSE SortStrategy_caller_list(strategy, books)
    /\ UNCHANGED << searchVars, lookupVars, filterVars, lifeVars >>

\* the same strategy applied to the sequence it returned
sort_sorted ==
    /\ sort_strategy \in Strategies
    /\ ~resorted
    /\ resorted' = TRUE
    /\ resort_out' = SortStrategy_sort(sort_strategy, sort_out)
    /\ UNCHANGED << books, sort_strategy, sort_out, searchVars, lookupVars, filterVars,
                    lifeVars >>

NextSort ==
    \/ \E strategy \in Strategies : sort_books(strategy)
    \/ sort_sorted

SpecSort == InitSort /\ [][NextSort]_vars

(***************************************************************************)
(* Properties of the sorts.                                                *)
(***************************************************************************)
\* the number of positions of s that hold x
Count(s, x) == Cardinality({ i \in 1..Len(s) : s[i] = x })

\* the elements of s
Range(s) == { s[i] : i \in 1..Len(s) }

\* the position of book b in s; books are objects, told apart by identity
Pos(s, b) == CHOOSE k \in 1..Len(s) : s[k].id = b.id

\* the sort key of a book under a strategy
SortKey(strategy, b) ==
    CASE strategy = "rating" -> << b.rating >>
      [] strategy = "title"  -> Lower(b.title)
      [] strategy = "year"   -> << b.year >>

\* a precedes b in the input with an equal key implies a precedes b in the output
KeepsOrderOfEqualKeys(strategy, in, out) ==
    \A i, j \in 1..Len(in) :
        (i < j /\ SortKey(strategy, in[i]) = SortKey(strategy, in[j]))
            => Pos(out, in[i]) < Pos(out, in[j])

\* C2: each sort strategy returns a permutation of its input: every record
\* occurs in the output as many times as in the input.
C2_Permutation ==
    sort_strategy \in Strategies =>
        /\ Len(sort_out) = Len(books)
        /\ \A b \in Range(books) \cup Range(sort_out) :
               Count(sort_out, b) = Count(books, b)

\* C2 witness: a sort of three books with a repeated title, rating and year
\* that had to reorder them
C2_Witness ==
    /\ sort_strategy \in Strategies
    /\ Len(books) = 3
    /\ sort_out # books
    /\ \E i, j \in 1..Len(books) :
          /\ i # j
          /\ books[i].title = books[j].title
          /\ books[i].rating = books[j].rating
          /\ books[i].year = books[j].year

\* C3: the output of the bubble rating sort is non-increasing in rating.
C3_RatingNonIncreasing ==
    sort_strategy = "rating" =>
        \A i \in 1..(Len(sort_out) - 1) : sort_out[i].rating >= sort_out[i + 1].rating

\* C3 witness: a rating sort of three books, lowest rating first in the input
C3_Witness ==
    /\ sort_strategy = "rating"
    /\ Len(books) = 3
    /\ books[1].rating < books[2].rating
    /\ books[1].rating < books[3].rating
    /\ sort_out[3] = books[1]

\* C4: the output of the title merge sort is non-decreasing in the
\* case-folded title.
C4_TitleNonDecreasing ==
    sort_strategy = "title" =>
        \A i \in 1..(Len(sort_out) - 1) :
            StrLeq(Lower(sort_out[i].title), Lower(sort_out[i + 1].title))

\* C4 witness: a title sort where "B" came before "a" in the input and the
\* case variants "a" and "A" are both present
C4_Witness ==
    /\ sort_strategy = "title"
    /\ Len(books) = 3
    /\ books[1].title = <<66>>
    /\ { books[2].title, books[3].title } = { <<97>>, <<65>> }
    /\ sort_out[3] = books[1]

\* C5: the output of the year merge sort is non-increasing in year.
C5_YearNonIncreasing ==
    sort_strategy = "year" =>
        \A i \in 1..(Len(sort_out) - 1) : sort_out[i].year >= sort_out[i + 1].year

\* C5 witness: a year sort of three books, oldest first in the input
C5_Witness ==
    /\ sort_strategy = "year"
    /\ Len(books) = 3
    /\ books[1].year < books[2].year
    /\ books[1].year < books[3].year
    /\ sort_out[3] = books[1]

\* C6: both merge sorts are stable: two records with equal key (equal
\* case-folded title, equal year) keep their input order in the output.
C6_MergeStable ==
    sort_strategy \in { "title", "year" } =>
        KeepsOrderOfEqualKeys(sort_strategy, books, sort_out)

\* C6 witness: a merge sort that reordered three books of which two, with
\* equal keys but different field values, were split over the two halves
C6_Witness ==
    /\ sort_strategy \in { "title", "year" }
    /\ Len(books) = 3
    /\ sort_out # books
    /\ SortKey(sort_strategy, books[1]) = SortKey(sort_strategy, books[3])
    /\ books[1].title # books[3].title

\* C7: the bubble rating sort is stable: two records with equal rating keep
\* their input order in the output.
C7_BubbleStable ==
    sort_strategy = "rating" => KeepsOrderOfEqualKeys("rating", books, sort_out)

\* C7 witness: a rating sort that moved a higher rated book in front of two
\* equally rated ones
C7_Witness ==
    /\ sort_strategy = "rating"
    /\ Len(books) = 3
    /\ books[1].rating = books[2].rating
    /\ books[3].rating > books[1].rating
    /\ sort_out[1] = books[3]

\* C8: each strategy is idempotent: sorting its own output again returns
\* the same records at the same positions.
C8_Idempotent ==
    resorted => resort_out = sort_out

\* C8 witness: a second application to an output that differs from the
\* input and holds two records of equal key
C8_Witness ==
    /\ resorted
    /\ Len(books) = 3
    /\ sort_out # books
    /\ \E i, j \in 1..Len(sort_out) :
          i # j /\ SortKey(sort_strategy, sort_out[i]) = SortKey(sort_strategy, sort_out[j])

(***************************************************************************)
(* BookInventory.custom_binary_search                                      *)
(*                                                                         *)
(* Indices are 0-based as in the source; At(bs, i) is bs[i] of the source. *)
(* The nested function binary_search_with_criteria is recursive: stack     *)
(* holds the windows of the calls still to run, in the order the           *)
(* interpreter runs them (a call's left recursion and everything below it  *)
(* before its right recursion).  A window is marked follow_up when it is   *)
(* one of the two calls made after a rating match (lines 474-475) or a     *)
(* call made below one of them.                                            *)
(***************************************************************************)
At(bs, i) == bs[i + 1]

\* line 435: sorted(self.books, key=lambda x: x.rating), a stable ascending
\* sort; b goes behind every book whose rating is <= its own
InsertByRating(s, b) ==
    LET k == Cardinality({ i \in 1..Len(s) : s[i].rating <= b.rating })
    IN  SubSeq(s, 1, k) \o << b >> \o SubSeq(s, k + 1, Len(s))

RECURSIVE sorted_by_rating(_)
sorted_by_rating(bs) ==
    IF bs = << >> THEN << >>
    ELSE InsertByRating(sorted_by_rating(SubSeq(bs, 1, Len(bs) - 1)), bs[Len(bs)])

\* line 460: the scan to the left starts next to mid
ScanLeftFromMid(mid) == mid
ScanLeftStart(mid) == mid - 1

\* lines 461-464: the scan to the left of mid; returns the final temp_left
\* and the results list
RECURSIVE ScanLeft(_, _, _, _, _)
ScanLeft(bs, temp_left, res, tr, ty) ==
    IF temp_left >= 0 /\ At(bs, temp_left).rating = tr
    THEN ScanLeft(bs, temp_left - 1,
                  IF At(bs, temp_left).year >= ty THEN Append(res, At(bs, temp_left))
                                                  ELSE res,
                  tr, ty)
    ELSE [temp |-> temp_left, res |-> res]

\* lines 468-471: the scan to the right of mid; returns the final temp_right
\* and the results list
\* line 468: the condition of the loop to the right
ScanRightStopsEarly(bs, temp_right, right, tr) ==
    temp_right < right /\ At(bs, temp_right).rating = tr
ScanRightContinues(bs, temp_right, right, tr) ==
    temp_right <= right /\ At(bs, temp_right).rating = tr

RECURSIVE ScanRight(_, _, _, _, _, _)
ScanRight(bs, temp_right, right, res, tr, ty) ==
    IF ScanRightContinues(bs, temp_right, right, tr)
    THEN ScanRight(bs, temp_right + 1, right,
                   IF At(bs, temp_right).year >= ty THEN Append(res, At(bs, temp_right))
                                                    ELSE res,
                   tr, ty)
    ELSE [temp |-> temp_right, res |-> res]

\* line 477: the search continues in the right half when the rating at mid
\* is below the target
GoesRightInverted(current_book, tr) == current_book.rating > tr
GoesRight(current_book, tr) == current_book.rating < tr

\* line 479: the right half starts behind mid
RightHalfFromMid(mid) == mid
RightHalfStart(mid) == mid + 1

\* line 455: the book at mid is a match when its year reaches the target
MidMatchesYearStrict(current_book, ty) == current_book.year > ty
MidMatchesYear(current_book, ty) == current_book.year >= ty

\* sample arguments: a rating that books have and one that none has, a
\* year between the sample years and one after them
SearchRatings == { 30, 45, 50 }
SearchYears == { 1999, 2010 }
TargetRatings == { 45, 40 }
TargetYears == { 2010, 2022 }

\* lines 427-436 and 485: the empty library returns [] at once; otherwise
\* the books are sorted and the recursion starts on the whole array
custom_binary_search(tr, ty) ==
    /\ pc \in { "idle", "done" }
    /\ target_rating' = tr
    /\ target_year' = ty
    /\ IF books = << >>
       THEN /\ pc' = "done"
            /\ search_out' = << >>
            /\ sorted_books' = << >>
            /\ stack' = << >>
            /\ results' = << >>
       ELSE /\ pc' = "searching"
            /\ sorted_books' = sorted_by_rating(books)
            /\ results' = << >>
            /\ stack' = << [left |-> 0, right |-> Len(books) - 1, follow_up |-> FALSE] >>
            /\ UNCHANGED search_out
    /\ UNCHANGED << books, sortVars, lookupVars, filterVars, lifeVars >>

\* lines 438-482: one call of binary_search_with_criteria(books, left, right)
binary_search_with_criteria ==
    /\ pc = "searching"
    /\ stack # << >>
    /\ LET left == Head(stack).left
           right == Head(stack).right
           follow_up == Head(stack).follow_up
           pending == Tail(stack)
           mid == (left + right) \div 2
       IN  IF left > right
           THEN /\ stack' = pending
                /\ UNCHANGED results
           ELSE LET current_book == At(sorted_books, mid)
                IN  IF current_book.rating = target_rating
                    THEN LET r0 == IF MidMatchesYear(current_book, target_year)
                                   THEN Append(results, current_book)
                                   ELSE results
                             l == ScanLeft(sorted_books, ScanLeftStart(mid), r0,
                                           target_rating, target_year)
                             r == ScanRight(sorted_books, mid + 1, right, l.res,
                                            target_rating, target_year)
                         IN  /\ results' = r.res
                             /\ stack' = << [left |-> left, right |-> l.temp,
                                             follow_up |-> TRUE],
                                            [left |-> r.temp, right |-> right,
                                             follow_up |-> TRUE] >>
                                          \o pending
                    ELSE IF GoesRight(current_book, target_rating)
                    THEN /\ stack' = << [left |-> RightHalfStart(mid), right |-> right,
                                          follow_up |-> follow_up] >> \o pending
                         /\ UNCHANGED results
                    ELSE /\ stack' = << [left |-> left, right |-> mid - 1,
                                          follow_up |-> follow_up] >> \o pending
                         /\ UNCHANGED results
    /\ UNCHANGED << books, sortVars, lookupVars, filterVars, lifeVars, pc, target_rating,
                    target_year, sorted_books, search_out >>

\* line 486: the outermost call is back, return results; the locals are gone
custom_binary_search_return ==
    /\ pc = "searching"
    /\ stack = << >>
    /\ pc' = "done"
    /\ search_out' = results
    /\ sorted_books' = << >>
    /\ results' = << >>
    /\ UNCHANGED << books, sortVars, lookupVars, filterVars, lifeVars, target_rating,
                    target_year, stack >>

SearchFields ==
    { f \in [year : SearchYears, rating : SearchRatings] :
        Book_init_ok(f.year, f.rating, 1) }

SearchInputs(n) ==
    { [i \in 1..n |-> Attach(Book(i, <<97>>, <<70>>, f[i].year, f[i].rating, TRUE, 1))] :
        f \in [1..n -> SearchFields] }

InitSearch ==
    /\ \E n \in 0..MaxSearchBooks : books \in SearchInputs(n)
    /\ SortIdle
    /\ SearchIdle
    /\ LookupIdle
    /\ FilterIdle
    /\ LifeIdle

NextSearch ==
    \/ \E tr \in TargetRatings, ty \in TargetYears : custom_binary_search(tr, ty)
    \/ binary_search_with_criteria
    \/ custom_binary_search_return

SpecSearch == InitSearch /\ [][NextSearch]_vars

\* the interpreter runs a started call to its end: a pending recursive call
\* is made and the return statement is reached
InitTermination ==
    /\ \E n \in 0..MaxTerminationBooks : books \in SearchInputs(n)
    /\ SortIdle
    /\ SearchIdle
    /\ LookupIdle
    /\ FilterIdle
    /\ LifeIdle

SpecSearchFair ==
    /\ InitTermination
    /\ [][NextSearch]_vars
    /\ WF_vars(binary_search_with_criteria)
    /\ WF_vars(custom_binary_search_return)

(***************************************************************************)
(* Properties of the binary search.                                        *)
(***************************************************************************)
\* C1: custom_binary_search returns exactly the records of the collection
\* with rating == target_rating and year >= target_year: all of them and
\* nothing else.
C1_SearchExact ==
    pc = "done" =>
        Range(search_out) =
            { b \in Range(books) : b.rating = target_rating /\ b.year >= target_year }

\* C1 witness: the collection of the completeness example (one lower
\* rating, a run of three target ratings of which two are recent enough,
\* one higher rating); the search returned the two recent ones
C1_Witness ==
    /\ pc = "done"
    /\ Len(books) = 5
    /\ [i \in 1..5 |-> books[i].rating] = << 30, 45, 45, 45, 50 >>
    /\ [i \in 1..5 |-> books[i].year] = << 2010, 1999, 2010, 2010, 2010 >>
    /\ target_rating = 45
    /\ target_year = 2010
    /\ Range(search_out) = { books[3], books[4] }

(***************************************************************************)
(* BookInventory.recursive_search_by_title / find_book_by_title            *)
(***************************************************************************)
\* line 495: the titles are compared after str.lower() on both sides
TitleEqualsCaseSensitive(book, title) == book.title = title
TitleEquals(book, title) == Lower(book.title) = Lower(title)

\* lines 491-497; index is 0-based; None is << >> and a book b is << b >>
RECURSIVE recursive_search_by_title(_, _, _)

\* with the end test index > len(self.books) the call at index = len reads
\* self.books[index] and raises IndexError
recursive_search_past_end(bs, title, index) ==
    IF index > Len(bs) THEN << >>
    ELSE IF index = Len(bs) THEN << "IndexError" >>
    ELSE IF TitleEquals(At(bs, index), title) THEN << At(bs, index) >>
    ELSE recursive_search_by_title(bs, title, index + 1)

recursive_search_by_title(bs, title, index) ==
    IF index >= Len(bs) THEN << >>
    ELSE IF TitleEquals(At(bs, index), title) THEN << At(bs, index) >>
    ELSE recursive_search_by_title(bs, title, index + 1)

\* "a", "A", "b", "AB", "c"
QueryTitles == { <<97>>, <<65>>, <<98>>, <<65, 66>>, <<99>> }

\* lines 499-500
find_book_by_title(title) ==
    /\ lookup_done' = TRUE
    /\ lookup_title' = title
    /\ lookup_out' = recursive_search_by_title(books, title, 0)
    /\ UNCHANGED << books, sortVars, searchVars, filterVars, lifeVars >>

LookupInputs(n) ==
    { [i \in 1..n |-> Attach(Book(i, f[i], <<70>>, 2010, 45, TRUE, 1))] :
        f \in [1..n -> Titles] }

InitLookup ==
    /\ \E n \in 0..MaxLookupBooks : books \in LookupInputs(n)
    /\ Book_init_ok(2010, 45, 1)
    /\ SortIdle
    /\ SearchIdle
    /\ LookupIdle
    /\ FilterIdle
    /\ LifeIdle

NextLookup == \E title \in QueryTitles : find_book_by_title(title)

SpecLookup == InitLookup /\ [][NextLookup]_vars

\* the positions of bs whose title equals title when case is ignored
MatchingPositions(bs, title) ==
    { i \in 1..Len(bs) : Lower(bs[i].title) = Lower(title) }

\* the smallest element of a non-empty set of numbers
Least(S) == CHOOSE x \in S : \A y \in S : x <= y

\* C9: find_book_by_title returns the record at the smallest index whose
\* title equals the query case-insensitively, and None exactly when no
\* title matches.
C9_FirstMatch ==
    lookup_done =>
        IF MatchingPositions(books, lookup_title) = { }
        THEN lookup_out = << >>
        ELSE lookup_out = << books[Least(MatchingPositions(books, lookup_title))] >>

\* C9 witness: two case variants of the queried title behind a book with
\* another title; the earlier variant was returned
C9_Witness ==
    /\ lookup_done
    /\ Len(books) = 3
    /\ books[1].title = <<66>>
    /\ books[2].title = <<97>>
    /\ books[3].title = <<65>>
    /\ lookup_title = <<65>>
    /\ lookup_out = << books[2] >>

(***************************************************************************)
(* BookInventory.practical_truth_table_search                              *)
(***************************************************************************)
\* line 400: G
GenreMatches(book, genre) == Lower(book.genre) = Lower(genre)

\* line 401: S
StudentFriendly(book) == book.rating >= 40 /\ book.year >= 2000

\* line 404
IsBorrowable(book) == book.availability /\ book.quantity > 0

\* line 405
IsReferenceAnyQuantity(book) == ~IsBorrowable(book)
IsReference(book) == ~IsBorrowable(book) /\ book.quantity = 0

\* lines 408-419: TRUE when no continue statement skips the book
ReachesAppend(book, genre, for_students, borrowing_type) ==
    IF ~GenreMatches(book, genre) THEN FALSE
    ELSE IF for_students /\ ~StudentFriendly(book) THEN FALSE
    ELSE IF borrowing_type = "borrow" /\ ~IsBorrowable(book) THEN FALSE
    ELSE IF borrowing_type = "reference" /\ ~IsReference(book) THEN FALSE
    ELSE TRUE

\* lines 398-423: the loop over self.books, from 1-based position i on
RECURSIVE truth_table_loop(_, _, _, _, _, _)
truth_table_loop(bs, i, res, genre, for_students, borrowing_type) ==
    IF i > Len(bs) THEN res
    ELSE truth_table_loop(bs, i + 1,
            IF ReachesAppend(bs[i], genre, for_students, borrowing_type)
            THEN Append(res, << bs[i], IsBorrowable(bs[i]), IsReference(bs[i]) >>)
            ELSE res,
            genre, for_students, borrowing_type)

\* sample arguments: "f" and "S", each the other case of one sample genre
QueryGenres == { <<102>>, <<83>> }
BorrowingTypes == { "borrow", "reference", "any" }

\* lines 364-425
practical_truth_table_search(genre, for_students, borrowing_type) ==
    /\ filter_done' = TRUE
    /\ filter_genre' = genre
    /\ filter_students' = for_students
    /\ filter_type' = borrowing_type
    /\ filter_out' = truth_table_loop(books, 1, << >>, genre, for_students,
                                       borrowing_type)
    /\ UNCHANGED << books, sortVars, searchVars, lookupVars, lifeVars >>

\* genres "F" and "s"; ratings and years on both sides of the student
\* thresholds; every availability flag with every quantity, as Book.__init__
\* accepts them
FilterFields ==
    { f \in [genre : { <<70>>, <<115>> }, year : { 1999, 2000 }, rating : { 39, 40 },
              availability : BOOLEAN, quantity : { 0, 1 }] :
        Book_init_ok(f.year, f.rating, f.quantity) }

FilterInputs(n) ==
    { [i \in 1..n |-> Attach(Book(i, <<97>>, f[i].genre, f[i].year, f[i].rating,
                                  f[i].availability, f[i].quantity))] :
        f \in [1..n -> FilterFields] }

InitFilter ==
    /\ \E n \in 0..MaxFilterBooks : books \in FilterInputs(n)
    /\ SortIdle
    /\ SearchIdle
    /\ LookupIdle
    /\ FilterIdle
    /\ LifeIdle

NextFilter ==
    \E genre \in QueryGenres, for_students \in BOOLEAN, borrowing_type \in BorrowingTypes :
        practical_truth_table_search(genre, for_students, borrowing_type)

SpecFilter == InitFilter /\ [][NextFilter]_vars

\* the inclusion rule as the claim states it
C10_Included(r) ==
    /\ Lower(r.genre) = Lower(filter_genre)
    /\ (~filter_students \/ (r.rating >= 40 /\ r.year >= 2000))
    /\ (filter_type = "borrow" => (r.availability /\ r.quantity > 0))
    /\ (filter_type = "reference" =>
           (r.quantity = 0 /\ ~(r.availability /\ r.quantity > 0)))

\* C10: practical_truth_table_search returns, in collection order, exactly
\* the records whose genre matches case-insensitively, that are student
\* friendly when for_students is set, and that meet the borrowing type.
C10_FilterExact ==
    filter_done =>
        [i \in 1..Len(filter_out) |-> filter_out[i][1]] = SelectSeq(books, C10_Included)

\* C10 witness: a student reference search over two books of the genre in
\* different case; the first has no copies and is returned, the second is
\* flagged unavailable with a copy left and is not
C10_Witness ==
    /\ filter_done
    /\ filter_students
    /\ filter_type = "reference"
    /\ Len(books) = 2
    /\ Lower(books[1].genre) = Lower(filter_genre)
    /\ books[1].genre # filter_genre
    /\ books[2].genre = books[1].genre
    /\ StudentFriendly(books[1]) /\ StudentFriendly(books[2])
    /\ books[1].quantity = 0
    /\ ~books[2].availability /\ books[2].quantity = 1
    /\ Len(filter_out) = 1
    /\ filter_out[1][1] = books[1]

\* C19: every triple returned by practical_truth_table_search carries
\* exactly one classification: is_borrowable and is_reference are never
\* both true and never both false.
C19_ExactlyOneClass ==
    filter_done =>
        \A i \in 1..Len(filter_out) : filter_out[i][2] # filter_out[i][3]

(***************************************************************************)
(* Properties of the calls of binary_search_with_criteria.                 *)
(***************************************************************************)
\* no book occurs twice in s
NoRepeat(s) == \A i, j \in 1..Len(s) : i # j => s[i].id # s[j].id

\* a call of binary_search_with_criteria is about to run
CallPending == pc = "searching" /\ stack # << >>

\* the number of indices in a window; 0 or less when it is empty
Width(w) == w.right - w.left + 1

\* the windows of the recursive calls the running call makes
CallsMade == SubSeq(stack', 1, Len(stack') - Len(stack) + 1)

\* the records the running call appends to results
Emitted == SubSeq(results', Len(results) + 1, Len(results'))

\* C16: custom_binary_search emits each matching record once: no record
\* occurs twice in the result, and the two calls made after a rating match
\* add no record.
C16_EmittedOnce ==
    /\ [](NoRepeat(results) /\ NoRepeat(search_out))
    /\ [][(CallPending /\ Head(stack).follow_up) => results' = results]_vars

\* C16 witness: two records are emitted and a call made after the rating
\* match is about to run on a window that is not empty
C16_Witness ==
    /\ CallPending
    /\ Head(stack).follow_up
    /\ Head(stack).left <= Head(stack).right
    /\ Len(results) >= 2

\* C17: every record a call of binary_search_with_criteria emits lies at an
\* index of the call's own window [left, right].
C17_EmittedInWindow ==
    [][CallPending =>
         /\ SubSeq(results', 1, Len(results)) = results
         /\ \A k \in 1..Len(Emitted) :
               /\ Head(stack).left <= Pos(sorted_books, Emitted[k]) - 1
               /\ Pos(sorted_books, Emitted[k]) - 1 <= Head(stack).right]_vars

\* C17 witness: a nested call on a window that starts behind index 0 found
\* the rating, emitted two records and made its two calls
C17_Witness ==
    /\ pc = "searching"
    /\ Len(stack) >= 2
    /\ stack[1].follow_up /\ stack[2].follow_up
    /\ stack[1].left > 0
    /\ stack[2].right = Len(sorted_books) - 1
    /\ Len(results) >= 2

\* C18: custom_binary_search terminates: every recursive call is made on a
\* window strictly smaller than its caller's, a call with left > right makes
\* no call, and a started search returns.
C18_Terminates ==
    /\ [][CallPending =>
            /\ Head(stack).left > Head(stack).right => CallsMade = << >>
            /\ \A k \in 1..Len(CallsMade) : Width(CallsMade[k]) < Width(Head(stack))]_vars
    /\ (pc = "searching") ~> (pc = "done")

\* C18 witness: a search over four books has returned
C18_Witness ==
    /\ pc = "done"
    /\ Len(books) = 4
    /\ search_out # << >>

(***************************************************************************)
(* The engine specification: the four capabilities of the engine, called   *)
(* in any order on one collection.                                         *)
(***************************************************************************)
\* two sample books that every sort strategy puts in the other order:
\* "B" 4.0 of 1999, genre "F", one copy; "a" 4.5 of 2010, genre "s", no copy
EngineSamples ==
    { Book(0, <<66>>, <<70>>, 1999, 40, TRUE, 1),
      Book(0, <<97>>, <<115>>, 2010, 45, FALSE, 0) }

EngineInputs(n) ==
    { [i \in 1..n |-> Attach([f[i] EXCEPT !.id = i])] : f \in [1..n -> EngineSamples] }

InitEngine ==
    /\ \E n \in 0..MaxEngineBooks : books \in EngineInputs(n)
    /\ SortIdle
    /\ SearchIdle
    /\ LookupIdle
    /\ FilterIdle
    /\ LifeIdle

NextEngine ==
    \/ NextSort
    \/ NextSearch
    \/ NextLookup
    \/ NextFilter

SpecEngine == InitEngine /\ [][NextEngine]_vars

\* every capability of the engine has been used and has returned
AllReturned ==
    /\ sort_strategy \in Strategies
    /\ resorted
    /\ pc = "done"
    /\ lookup_done
    /\ filter_done

\* C11: no engine operation (the three sorts, find_book_by_title,
\* custom_binary_search, practical_truth_table_search) changes the caller's
\* collection or any field of any record in it.
C11_CollectionUnchanged == [][books' = books]_vars

\* C11 witness: all operations have run on two books that the sort returned
\* in the other order
C11_Witness ==
    /\ AllReturned
    /\ Len(books) = 2
    /\ sort_out = << books[2], books[1] >>
    /\ search_out # << >>
    /\ lookup_out # << >>
    /\ filter_out # << >>

\* C15: on an empty collection every operation returns an empty result:
\* the sorts an empty sequence, the two searches an empty list,
\* find_book_by_title None.
C15_EmptyCollection ==
    books = << >> =>
        /\ pc # "searching"
        /\ sort_strategy \in Strategies => sort_out = << >>
        /\ resorted => resort_out = << >>
        /\ pc = "done" => search_out = << >>
        /\ lookup_done => lookup_out = << >>
        /\ filter_done => filter_out = << >>

\* C15 witness: every operation has returned on the empty collection
C15_Witness ==
    /\ books = << >>
    /\ AllReturned

(***************************************************************************)
(* The life cycle of a Book: creation, add_book, lend, return_book and the *)
(* two quantity updates.  A Book object is reached through the inventory   *)
(* (books) or, when it was never added, through its creator (loose); an    *)
(* operation on the object changes it wherever it is held.                 *)
(***************************************************************************)
\* every Book object, and the ids in use
Objects(bs, ls) == bs \o ls
Ids == { Objects(books, loose)[i].id : i \in 1..Len(Objects(books, loose)) }

\* the object with identity id among the objects of bs and ls
ObjIn(bs, ls, id) ==
    LET os == Objects(bs, ls)
    IN  os[CHOOSE i \in 1..Len(os) : os[i].id = id]

\* list bs after the object with the identity of book has become book
Mutated(bs, book) == [i \in 1..Len(bs) |-> IF bs[i].id = book.id THEN book ELSE bs[i]]

\* the history entries written so far
RECURSIVE EntriesIn(_)
EntriesIn(os) == IF os = << >> THEN 0 ELSE Len(Head(os).history) + EntriesIn(Tail(os))

\* LendOperation.can_perform, lines 100-101
LendOperation_can_perform(book) == book.availability /\ book.quantity > 0

\* LendOperation.execute, lines 103-109
LendOperation_execute(book) ==
    IF LendOperation_can_perform(book)
    THEN [ret |-> TRUE,
          book |-> add_to_history([book EXCEPT !.quantity = book.quantity - 1,
                                               !.availability = (book.quantity - 1 > 0)],
                                  "lend")]
    ELSE [ret |-> FALSE, book |-> book]

\* ReturnOperation.execute, lines 117-121
ReturnOperation_execute(book) ==
    [ret |-> TRUE,
     book |-> add_to_history([book EXCEPT !.quantity = book.quantity + 1,
                                          !.availability = TRUE],
                             "return")]

\* lines 164-165, 173-174, 183-184: hasattr(self, 'inventory') holds for
\* every Book (line 149 sets the attribute), so the save is always tried;
\* on a book whose inventory is None it raises AttributeError
SaveRaises(book) == book.inventory = "None"

\* sample arguments of the constructor and of the quantity updates
NewAvailability == BOOLEAN
NewQuantity == { 0, 1 }
QuantityArgs == { -1, 0, 2 }

\* Book.__init__, lines 130-154, called outside the inventory
Book_init(availability, quantity) ==
    /\ Len(Objects(books, loose)) < MaxLifeBooks
    /\ EntriesIn(Objects(books, loose)) < MaxEvents
    /\ Book_init_ok(2010, 45, quantity)
    /\ loose' = Append(loose, Book(Len(Objects(books, loose)) + 1, <<97>>, <<70>>,
                                    2010, 45, availability, quantity))
    /\ last_op' = "init"
    /\ last_target' = Len(Objects(books, loose)) + 1
    /\ last_ret' = "None"
    /\ UNCHANGED << books, database, sortVars, searchVars, lookupVars, filterVars >>

\* BookInventory.add_book, lines 334-337, on the k-th loose book
add_book(k) ==
    /\ k \in 1..Len(loose)
    /\ books' = Append(books, Attach(loose[k]))
    /\ loose' = SubSeq(loose, 1, k - 1) \o SubSeq(loose, k + 1, Len(loose))
    /\ database' = save_database(books')
    /\ last_op' = "add_book"
    /\ last_target' = loose[k].id
    /\ last_ret' = "None"
    /\ UNCHANGED << sortVars, searchVars, lookupVars, filterVars >>

\* Book.lend, lines 170-178
Book_lend(id) ==
    /\ id \in Ids
    /\ LET e == LendOperation_execute(ObjIn(books, loose, id))
       IN  /\ e.ret => EntriesIn(Objects(books, loose)) < MaxEvents
           /\ books' = Mutated(books, e.book)
           /\ loose' = Mutated(loose, e.book)
           /\ IF e.ret /\ ~SaveRaises(e.book)
              THEN /\ database' = save_database(books')
                   /\ last_ret' = "True"
              ELSE /\ UNCHANGED database
                   /\ last_ret' = "False"
    /\ last_op' = "lend"
    /\ last_target' = id
    /\ UNCHANGED << sortVars, searchVars, lookupVars, filterVars >>

\* Book.return_book, lines 180-188
Book_return_book(id) ==
    /\ id \in Ids
    /\ EntriesIn(Objects(books, loose)) < MaxEvents
    /\ LET e == ReturnOperation_execute(ObjIn(books, loose, id))
       IN  /\ books' = Mutated(books, e.book)
           /\ loose' = Mutated(loose, e.book)
           /\ IF e.ret /\ ~SaveRaises(e.book)
              THEN /\ database' = save_database(books')
                   /\ last_ret' = "True"
              ELSE /\ UNCHANGED database
                   /\ last_ret' = "False"
    /\ last_op' = "return_book"
    /\ last_target' = id
    /\ UNCHANGED << sortVars, searchVars, lookupVars, filterVars >>

\* Book.update_quantity, lines 159-165: the fields after the call
Book_update_quantity_fields(book, new_quantity) ==
    add_to_history([book EXCEPT !.quantity = new_quantity,
                                !.availability = (new_quantity > 0)],
                   "quantity_update")

\* Book.update_quantity called directly on a book
Book_update_quantity(id, new_quantity) ==
    /\ id \in Ids
    /\ EntriesIn(Objects(books, loose)) < MaxEvents
    /\ LET b == Book_update_quantity_fields(ObjIn(books, loose, id), new_quantity)
       IN  /\ books' = Mutated(books, b)
           /\ loose' = Mutated(loose, b)
           /\ IF SaveRaises(b)
              THEN /\ UNCHANGED database
                   /\ last_ret' = "AttributeError"
              ELSE /\ database' = save_database(books')
                   /\ last_ret' = "None"
    /\ last_op' = "update_quantity"
    /\ last_target' = id
    /\ UNCHANGED << sortVars, searchVars, lookupVars, filterVars >>

\* BookInventory.update_book_quantity, lines 357-362; book_id is 0-based
update_book_quantity(book_id, new_quantity) ==
    /\ IF 0 <= book_id /\ book_id < Len(books)
       THEN /\ EntriesIn(Objects(books, loose)) < MaxEvents
            /\ books' = Mutated(books, Book_update_quantity_fields(At(books, book_id),
                                                                    new_quantity))
            /\ database' = save_database(books')
            /\ last_target' = At(books, book_id).id
            /\ last_ret' = "True"
       ELSE /\ UNCHANGED << books, database >>
            /\ last_target' = 0
            /\ last_ret' = "False"
    /\ last_op' = "update_book_quantity"
    /\ UNCHANGED << loose, sortVars, searchVars, lookupVars, filterVars >>

\* BookInventory.__init__ with no database file: an empty inventory
InitLife ==
    /\ books = << >>
    /\ SortIdle
    /\ SearchIdle
    /\ LookupIdle
    /\ FilterIdle
    /\ LifeIdle

NextLife ==
    \/ \E availability \in NewAvailability, quantity \in NewQuantity :
          Book_init(availability, quantity)
    \/ \E k \in 1..Len(loose) : add_book(k)
    \/ \E id \in Ids : Book_lend(id)
    \/ \E id \in Ids : Book_return_book(id)
    \/ \E id \in Ids, new_quantity \in QuantityArgs : Book_update_quantity(id, new_quantity)
    \/ \E book_id \in 0..Len(books), new_quantity \in QuantityArgs :
          update_book_quantity(book_id, new_quantity)

SpecLife == InitLife /\ [][NextLife]_vars

(***************************************************************************)
(* Properties of the life cycle.                                           *)
(***************************************************************************)
\* the object with identity id before and after a step
Before(id) == ObjIn(books, loose, id)
After(id) == ObjIn(books', loose', id)

\* the step is a call of op on the object with identity id
Called(op, id) == last_op' = op /\ last_target' = id /\ vars' # vars

\* the operations that change a quantity
Mutations == { "lend", "return_book", "update_quantity", "update_book_quantity" }

\* s is a prefix of t
IsPrefix(s, t) == Len(s) <= Len(t) /\ SubSeq(t, 1, Len(s)) = s

\* C12: after every mutation of a record by lend, return or a quantity
\* update, availability == (quantity > 0).
C12_AvailabilityIsQuantity ==
    [][\A id \in Ids :
          (last_op' \in Mutations /\ After(id) # Before(id))
              => (After(id).availability = (After(id).quantity > 0))]_vars

\* C13: the history of a record is append-only: a step keeps the old
\* history as a prefix; creation, a successful lend, a return and a
\* quantity change append exactly one entry, a refused lend none.
C13_HistoryAppendOnly ==
    [][/\ \A id \in Ids :
            LET h == Before(id).history
                h2 == After(id).history
            IN  /\ IsPrefix(h, h2)
                /\ (Called("lend", id) /\ LendOperation_can_perform(Before(id)))
                       => h2 = Append(h, "lend")
                /\ (Called("lend", id) /\ ~LendOperation_can_perform(Before(id)))
                       => h2 = h
                /\ Called("return_book", id) => h2 = Append(h, "return")
                /\ (Called("update_quantity", id) \/ Called("update_book_quantity", id))
                       => h2 = Append(h, "quantity_update")
                /\ (last_target' # id \/ last_op' \notin Mutations) => h2 = h
        /\ \A o \in Range(Objects(books', loose')) :
            o.id \notin Ids => o.history = << "created" >>]_vars

\* C13 witness: a book created without copies was returned, lent, and then
\* refused to a second borrower
C13_Witness ==
    /\ last_op = "lend"
    /\ last_ret = "False"
    /\ last_target \in Ids
    /\ Before(last_target).history = << "created", "return", "lend" >>
    /\ Before(last_target).quantity = 0
    /\ Before(last_target).inventory = "inventory"

\* C14: in every reachable state every record's quantity is >= 0.
C14_QuantityNonNegative ==
    \A id \in Ids : Before(id).quantity >= 0

\* C20: Book.lend() returns True exactly when it lent a copy: on True the
\* quantity went down by one and one lend entry was appended, on False the
\* record is unchanged, attached to an inventory or not.
C20_LendReturnsWhatItDid ==
    [][\A id \in Ids :
          Called("lend", id) =>
              IF last_ret' = "True"
              THEN /\ After(id).quantity = Before(id).quantity - 1
                   /\ After(id).history = Append(Before(id).history, "lend")
              ELSE After(id) = Before(id)]_vars

\* C21: a book can always be returned: in every state, attached to an
\* inventory or not, Book.return_book() returns True, raises the quantity by
\* exactly one, sets availability and appends exactly one return entry.
C21_ReturnAlwaysSucceeds ==
    [][\A id \in Ids :
          Called("return_book", id) =>
              /\ last_ret' = "True"
              /\ After(id).quantity = Before(id).quantity + 1
              /\ After(id).availability
              /\ After(id).history = Append(Before(id).history, "return")]_vars

(***************************************************************************)
(* BookInventory.remove_book                                               *)
(***************************************************************************)
\* line 343, self.books.remove(book): list.remove deletes the first element
\* equal to book; Book defines no __eq__, so equal means the same object
list_remove_every_match(bs, book) == SelectSeq(bs, LAMBDA b : ~TitleEquals(b, book.title))
list_remove(bs, book) ==
    LET i == CHOOSE i \in 1..Len(bs) :
                 /\ bs[i].id = book.id
                 /\ \A j \in 1..(i - 1) : bs[j].id # book.id
    IN  SubSeq(bs, 1, i - 1) \o SubSeq(bs, i + 1, Len(bs))

\* lines 339-350; a Book is always truthy, so "if book" tests for None
remove_book(title) ==
    /\ LET book == recursive_search_by_title(books, title, 0)
       IN  IF book # << >>
           THEN /\ books' = list_remove(books, book[1])
                /\ database' = save_database(books')
                /\ last_target' = book[1].id
                /\ last_ret' = "True"
           ELSE /\ UNCHANGED << books, database >>
                /\ last_target' = 0
                /\ last_ret' = "False"
    /\ last_op' = "remove_book"
    /\ UNCHANGED << loose, sortVars, searchVars, lookupVars, filterVars >>

\* an inventory loaded from its file, with case variants and repeated titles
InitRemove ==
    /\ \E n \in 0..MaxRemoveBooks : books \in LookupInputs(n)
    /\ Book_init_ok(2010, 45, 1)
    /\ SortIdle
    /\ SearchIdle
    /\ LookupIdle
    /\ FilterIdle
    /\ LifeIdle

NextRemove == \E title \in QueryTitles : remove_book(title)

SpecRemove == InitRemove /\ [][NextRemove]_vars

\* bs without its i-th record (1-based)
Without(bs, i) == SubSeq(bs, 1, i - 1) \o SubSeq(bs, i + 1, Len(bs))

\* C22: remove_book(title) removes exactly the record at the smallest index
\* whose title matches when case is ignored, keeps every other record, the
\* ones with the same title included, in the same order, and returns True;
\* when no title matches it returns False and the collection is unchanged.
C22_RemovesFirstMatch ==
    [][\A title \in QueryTitles :
          remove_book(title) =>
              IF MatchingPositions(books, title) # {}
              THEN /\ last_ret' = "True"
                   /\ books' = Without(books, Least(MatchingPositions(books, title)))
              ELSE /\ last_ret' = "False"
                   /\ books' = books]_vars

\* C22 witness: of two records with the same title the first, standing
\* behind a record with another title, was removed and the second stayed
C22_Witness ==
    /\ last_op = "remove_book"
    /\ last_ret = "True"
    /\ last_target = 2
    /\ Len(books) = 2
    /\ books[1].id = 1
    /\ books[2].id = 3
    /\ \E title \in QueryTitles :
           /\ ~TitleEquals(books[1], title)
           /\ TitleEquals(books[2], title)
           /\ database = save_database(books)

====
